---- MODULE Spec2Model ----
(***************************************************************************)
(* Model of the rosie web agent: the HTTP handler (pages/api agent route), *)
(* WebAgent.initialize / close / executeTask, the plan parser              *)
(* (parseAnalysis, extractSelector, extractValue) and executeActions.      *)
(*                                                                         *)
(* JavaScript strings are sequences of one-character strings, so that      *)
(* String.includes, String.split, the regular expressions and the template *)
(* literals are computed character by character.  null and undefined are   *)
(* one-element sequences holding a multi-character token, which no string  *)
(* of characters can equal.                                                *)
(***************************************************************************)
EXTENDS Integers, Sequences, FiniteSets, TLC

\* ------------------------------------------------------------------ bounds
\* Most lines of a plan text the language model returns (pipeline spec).
MaxLines == 3
\* Most fragments concatenated into a raw plan text (parser spec).
MaxFrags == 3

\* ------------------------------------------------------- JavaScript values
Null == <<"NULL">>
Undefined == <<"UNDEFINED">>

\* !v for the values a request field can hold: undefined, null and "" are falsy.
Falsy(v) == v = Undefined \/ v = Null \/ v = <<>>

\* `${v}` : a string renders as itself, null as the text null.
SNullText ==
    <<"n", "u", "l", "l">>
Template(v) == IF v = Null THEN SNullText ELSE v

\* --------------------------------------------------------- string literals
KwClick ==
    <<"c", "l", "i", "c", "k">>
KwType ==
    <<"t", "y", "p", "e">>
KwSubmit ==
    <<"s", "u", "b", "m", "i", "t">>
IdPrefix ==
    <<"i", "d", "=", "\"">>
ClassPrefix ==
    <<"c", "l", "a", "s", "s", "=", "\"">>
ValuePrefix ==
    <<"v", "a", "l", "u", "e", "=", "\"">>
STextEq ==
    <<"t", "e", "x", "t", "=", "\"">>
SClicked ==
    <<"C", "l", "i", "c", "k", "e", "d", " ">>
STypedInto ==
    <<"T", "y", "p", "e", "d", " ", "i", "n", "t", "o", " ">>
SSubmittedForm ==
    <<"S", "u", "b", "m", "i", "t", "t", "e", "d", " ", "f", "o", "r", "m", " ">>
SFailedToExecute ==
    <<"F", "a", "i", "l", "e", "d", " ", "t", "o", " ", "e", "x", "e", "c", "u", "t", "e", " ">>
SColonSpace ==
    <<":", " ">>
STaskExecutionFailed ==
    <<"T", "a", "s", "k", " ", "e", "x", "e", "c", "u", "t", "i", "o", "n", " ", "f", "a", "i", "l", "e", "d", ":", " ">>
STaskCompleted ==
    <<"T", "a", "s", "k", " ", "c", "o", "m", "p", "l", "e", "t", "e", "d", " ", "s", "u", "c", "c", "e", "s", "s", "f", "u", "l", "l", "y">>
SMethodNotAllowed ==
    <<"M", "e", "t", "h", "o", "d", " ", "n", "o", "t", " ", "a", "l", "l", "o", "w", "e", "d">>
SUrlAndTaskRequired ==
    <<"U", "R", "L", " ", "a", "n", "d", " ", "t", "a", "s", "k", " ", "a", "r", "e", " ", "r", "e", "q", "u", "i", "r", "e", "d">>

\* Messages of the errors the collaborators (browser driver, model service)
\* and the JavaScript engine raise.
MsgTimeout ==
    <<"t", "i", "m", "e", "o", "u", "t">>
MsgNoNode ==
    <<"n", "o", " ", "n", "o", "d", "e">>
MsgSplitOfNull ==
    <<"C", "a", "n", "n", "o", "t", " ", "r", "e", "a", "d", " ", "p", "r", "o", "p", "e", "r", "t", "i", "e", "s", " ", "o", "f", " ", "n", "u", "l", "l", " ", "(", "r", "e", "a", "d", "i", "n", "g", " ", "'", "s", "p", "l", "i", "t", "'", ")">>
MsgMessageOfUndefined ==
    <<"C", "a", "n", "n", "o", "t", " ", "r", "e", "a", "d", " ", "p", "r", "o", "p", "e", "r", "t", "i", "e", "s", " ", "o", "f", " ", "u", "n", "d", "e", "f", "i", "n", "e", "d", " ", "(", "r", "e", "a", "d", "i", "n", "g", " ", "'", "m", "e", "s", "s", "a", "g", "e", "'", ")">>
ErrMsgs == {MsgTimeout, MsgNoNode}
\* Messages of the rejections of click, type and submit.
DriverErrMsgs == {MsgNoNode}

\* ------------------------------------------------------------ sample input
UrlExample ==
    <<"h", "t", "t", "p", ":", "/", "/", "x">>
TaskExample ==
    <<"l", "o", "g", " ", "i", "n", " ", "w", "i", "t", "h", " ", "u", "s", "e", "r", " ", "t", "e", "s", "t">>
LineLoginBtn ==
    <<"1", ".", " ", "C", "l", "i", "c", "k", " ", "t", "h", "e", " ", "b", "u", "t", "t", "o", "n", " ", "w", "i", "t", "h", " ", "i", "d", "=", "\"", "l", "o", "g", "i", "n", "-", "b", "t", "n", "\"">>
SelLoginBtn ==
    <<"#", "l", "o", "g", "i", "n", "-", "b", "t", "n">>
LineClickId ==
    <<"c", "l", "i", "c", "k", " ", "i", "d", "=", "\"", "a", "\"">>
LineTypeValue ==
    <<"t", "y", "p", "e", " ", "v", "a", "l", "u", "e", "=", "\"", "h", "e", "l", "l", "o", "\"">>
LineSubmitClass ==
    <<"s", "u", "b", "m", "i", "t", " ", "c", "l", "a", "s", "s", "=", "\"", "f", "\"">>
LineTypeBare ==
    <<"t", "y", "p", "e", " ", "i", "t">>
LineNoise ==
    <<"o", "k">>
FragId ==
    <<"i", "d", "=", "\"", "a", "\"">>
FragClass ==
    <<"c", "l", "a", "s", "s", "=", "\"", "b", "\"">>
FragQuoted ==
    <<"'", "c", "'">>
FragValue ==
    <<"v", "a", "l", "u", "e", "=", "\"", "v", "\"">>
FragNewline == <<"\n">>
FragDQuote == <<"\"">>
FragNoise == <<"x">>

\* Lines a plan text of the pipeline spec is made of.
PlanLines == {LineLoginBtn, LineClickId, LineTypeValue, LineTypeBare,
              LineSubmitClass, LineNoise}
\* Fragments a raw text of the parser spec is made of.
Frags == {KwClick, KwType, KwSubmit, FragId, FragClass, FragQuoted, FragValue,
          FragNewline, FragNoise, IdPrefix, FragDQuote}

RECURSIVE Concat(_)
Concat(ss) == IF ss = <<>> THEN <<>> ELSE Head(ss) \o Concat(Tail(ss))

RECURSIVE JoinLines(_)
JoinLines(ls) ==
    IF ls = <<>> THEN <<>>
    ELSE IF Len(ls) = 1 THEN Head(ls)
    ELSE Head(ls) \o <<"\n">> \o JoinLines(Tail(ls))

SeqsUpTo(S, n) == UNION {[1..k -> S] : k \in 0..n}

PlanTexts == {JoinLines(ls) : ls \in SeqsUpTo(PlanLines, MaxLines)}
ParseTexts == {Concat(fs) : fs \in SeqsUpTo(Frags, MaxFrags)}

\* ------------------------------------------------------- string primitives
Min(S) == CHOOSE m \in S : \A n \in S : m <= n

StartsWithAt(s, i, pat) ==
    /\ i + Len(pat) - 1 <= Len(s)
    /\ SubSeq(s, i, i + Len(pat) - 1) = pat

\* String.prototype.includes
includes(s, pat) == \E i \in 1..(Len(s) - Len(pat) + 1) : StartsWithAt(s, i, pat)

\* Index of the first occurrence of character ch at or after j, 0 if none.
IndexFrom(s, ch, j) ==
    LET K == {k \in j..Len(s) : s[k] = ch}
    IN IF K = {} THEN 0 ELSE Min(K)

\* String.prototype.split('\n')
RECURSIVE split(_)
split(s) ==
    LET k == IndexFrom(s, "\n", 1)
    IN IF k = 0 THEN <<s>>
       ELSE <<SubSeq(s, 1, k - 1)>> \o split(SubSeq(s, k + 1, Len(s)))

\* The regular expression  prefix([^q]+)q  matches at position i.
MatchesAt(s, i, prefix, q) ==
    /\ StartsWithAt(s, i, prefix)
    /\ i + Len(prefix) <= Len(s)
    /\ s[i + Len(prefix)] # q
    /\ IndexFrom(s, q, i + Len(prefix)) # 0

\* String.prototype.match with the regular expression  prefix([^q]+)q :
\* capture group 1 of the leftmost match, Null when there is no match.
match(s, prefix, q) ==
    LET I == {i \in 1..Len(s) : MatchesAt(s, i, prefix, q)}
    IN IF I = {} THEN Null
       ELSE LET j == Min(I) + Len(prefix)
            IN SubSeq(s, j, IndexFrom(s, q, j) - 1)

\* extractSelector with the class pattern tried before the id pattern.
extractSelectorClassFirst(line) ==
    LET idMatch == match(line, IdPrefix, "\"")
        classMatch == match(line, ClassPrefix, "\"")
        textMatch == match(line, <<"'">>, "'")
    IN IF classMatch # Null THEN <<".">> \o classMatch
       ELSE IF idMatch # Null THEN <<"#">> \o idMatch
       ELSE IF textMatch # Null THEN STextEq \o textMatch \o <<"\"">>
       ELSE Null

\* ------------------------------------------------------------------ parser
extractSelector(line) ==
    LET idMatch == match(line, IdPrefix, "\"")
        classMatch == match(line, ClassPrefix, "\"")
        textMatch == match(line, <<"'">>, "'")
    IN IF idMatch # Null THEN <<"#">> \o idMatch
       ELSE IF classMatch # Null THEN <<".">> \o classMatch
       ELSE IF textMatch # Null THEN STextEq \o textMatch \o <<"\"">>
       ELSE Null

\* extractValue without the default: null when the line has no value pattern.
extractValueNoDefault(line) == match(line, ValuePrefix, "\"")

extractValue(line) ==
    LET valueMatch == match(line, ValuePrefix, "\"")
    IN IF valueMatch # Null THEN valueMatch ELSE <<>>

\* parseLine with the keywords tested in the opposite order.
parseLineSubmitFirst(line) ==
    IF includes(line, KwSubmit)
    THEN <<[type |-> "submit", selector |-> extractSelector(line)]>>
    ELSE IF includes(line, KwType)
    THEN <<[type |-> "type", selector |-> extractSelector(line),
            value |-> extractValue(line)]>>
    ELSE IF includes(line, KwClick)
    THEN <<[type |-> "click", selector |-> extractSelector(line)]>>
    ELSE <<>>

\* parseLine with three independent ifs in place of the else-if chain.
parseLineNoElse(line) ==
    (IF includes(line, KwClick)
     THEN <<[type |-> "click", selector |-> extractSelector(line)]>> ELSE <<>>)
    \o (IF includes(line, KwType)
        THEN <<[type |-> "type", selector |-> extractSelector(line),
                value |-> extractValue(line)]>> ELSE <<>>)
    \o (IF includes(line, KwSubmit)
        THEN <<[type |-> "submit", selector |-> extractSelector(line)]>> ELSE <<>>)

\* The actions one line pushes (the body of the for loop of parseAnalysis).
parseLine(line) ==
    IF includes(line, KwClick)
    THEN <<[type |-> "click", selector |-> extractSelector(line)]>>
    ELSE IF includes(line, KwType)
    THEN <<[type |-> "type", selector |-> extractSelector(line),
            value |-> extractValue(line)]>>
    ELSE IF includes(line, KwSubmit)
    THEN <<[type |-> "submit", selector |-> extractSelector(line)]>>
    ELSE <<>>

\* parseLines with unshift in place of push: the list comes out reversed.
RECURSIVE parseLinesReversed(_)
parseLinesReversed(lines) ==
    IF lines = <<>> THEN <<>>
    ELSE parseLinesReversed(Tail(lines)) \o parseLine(Head(lines))

RECURSIVE parseLines(_)
parseLines(lines) ==
    IF lines = <<>> THEN <<>>
    ELSE parseLine(Head(lines)) \o parseLines(Tail(lines))

\* parseAnalysis on a string argument.
parseAnalysis(analysis) == parseLines(split(analysis))

\* parseAnalysis raises a TypeError when its argument has no split method.
parseAnalysisThrows(analysis) == analysis = Null \/ analysis = Undefined

\* ------------------------------------------------------------------- state
VARIABLES
    req,          \* the HTTP request: method and the body's url and task
    pc,           \* position of the handler (or of the parser harness)
    stage,        \* state of executeTask
    agents,       \* number of WebAgent objects constructed
    browser,      \* this.browser: "null", "open" (launched) or "closed"
    page,         \* this.page is set
    completion,   \* completion.data of the chat completion request
    analysis,     \* argument of parseAnalysis
    actions,      \* the parsed action list
    idx,          \* position of the for loop of executeActions (1-based)
    execpc,       \* inside the loop body: "op" or "settle"
    results,      \* the results array of executeActions
    driverLog,    \* browser-driver operations performed, in order, with outcome
    llmCalls,     \* number of chat completion requests issued
    taskOutcome,  \* "pending", "returned" or "threw"
    taskResult,   \* value executeTask returned
    taskError,    \* message of the error executeTask threw
    responses,    \* responses sent on res, in order
    inflight,     \* external operations issued and not yet settled
    raised        \* messages of the errors raised so far, in order

vars == <<req, pc, stage, agents, browser, page, completion, analysis, actions,
          idx, execpc, results, driverLog, llmCalls, taskOutcome, taskResult,
          taskError, responses, inflight, raised>>

handlerVars == <<pc, agents, browser, page, responses>>
taskVars == <<stage, completion, analysis, actions, idx, execpc, results,
              driverLog, llmCalls, taskOutcome, taskResult, taskError>>

NoResult == [success |-> FALSE, result |-> <<>>, message |-> <<>>]
NoCompletion == [choices |-> <<>>]

\* completion.data values the model service can answer with: a text, the
\* empty text, a message without content, or no choice at all.
Completions ==
    {[choices |-> <<[message |-> [content |-> t]]>>] : t \in PlanTexts \cup {Null}}
        \cup {[choices |-> <<>>]}

Requests ==
    [method : {"GET", "POST"},
     url : {Undefined, <<>>, UrlExample},
     task : {Undefined, <<>>, TaskExample}]

Init ==
    /\ req \in Requests
    /\ pc = "handler"
    /\ stage = "Idle"
    /\ agents = 0
    /\ browser = "null"
    /\ page = FALSE
    /\ completion = NoCompletion
    /\ analysis = Null
    /\ actions = <<>>
    /\ idx = 1
    /\ execpc = "op"
    /\ results = <<>>
    /\ driverLog = <<>>
    /\ llmCalls = 0
    /\ taskOutcome = "pending"
    /\ taskResult = NoResult
    /\ taskError = <<>>
    /\ responses = <<>>
    /\ inflight = <<>>
    /\ raised = <<>>

\* An external operation: a call on the browser driver or the model service.
Op(op, target) == [op |-> op, target |-> target]

RECURSIVE RemoveOne(_, _)
RemoveOne(ops, x) ==
    IF ops = <<>> THEN <<>>
    ELSE IF Head(ops) = x THEN Tail(ops)
    ELSE <<Head(ops)>> \o RemoveOne(Tail(ops), x)

\* A call is made: its promise is pending.
Issue(issued) == inflight' = inflight \o issued

\* await: the promise of the operation settled, and the code that follows
\* runs up to its next call.
Await(settled, issued) == inflight' = RemoveOne(inflight, settled) \o issued

\* The driver call of action i of the list, none past its end.
ActionOpAt(acts, i) ==
    IF i <= Len(acts) THEN <<Op(acts[i].type, acts[i].selector)>> ELSE <<>>

\* An error with this message is raised.
Raise(message) == raised' = Append(raised, message)

\* res.status(status).json(body)
Respond(status, body) ==
    responses' = Append(responses, [status |-> status, body |-> body])

\* The catch block of the handler: res.status(500).json({error: error.message}).
HandlerCatch(message) ==
    /\ Respond(500, [error |-> message])
    /\ pc' = "done"

\* ------------------------------------------------------------- the handler
\* The check of the body with the test of task left out.
MissingFieldsUrlOnly(r) == Falsy(r.url)

\* !url || !task
MissingFields(r) == Falsy(r.url) \/ Falsy(r.task)

HandlerMethodNotAllowed ==
    /\ pc = "handler"
    /\ req.method # "POST"
    /\ Respond(405, [error |-> SMethodNotAllowed])
    /\ pc' = "done"
    /\ UNCHANGED <<req, agents, browser, page>>
    /\ UNCHANGED taskVars
    /\ UNCHANGED <<inflight, raised>>

HandlerMissingFields ==
    /\ pc = "handler"
    /\ req.method = "POST"
    /\ MissingFields(req)
    /\ Respond(400, [error |-> SUrlAndTaskRequired])
    /\ pc' = "done"
    /\ UNCHANGED <<req, agents, browser, page>>
    /\ UNCHANGED taskVars
    /\ UNCHANGED <<inflight, raised>>

\* new WebAgent(openaiKey); agent.initialize() starts puppeteer.launch.
HandlerStart ==
    /\ pc = "handler"
    /\ req.method = "POST"
    /\ ~MissingFields(req)
    /\ agents' = agents + 1
    /\ pc' = "launch"
    /\ UNCHANGED <<req, browser, page, responses>>
    /\ UNCHANGED taskVars
    /\ Issue(<<Op("launch", <<>>)>>)
    /\ UNCHANGED raised

\* ---------------------------------------------------- WebAgent.initialize
LaunchOk ==
    /\ pc = "launch"
    /\ browser' = "open"
    /\ pc' = "newPage"
    /\ UNCHANGED <<req, agents, page, responses>>
    /\ UNCHANGED taskVars
    /\ Await(Op("launch", <<>>), <<Op("newPage", <<>>)>>)
    /\ UNCHANGED raised

LaunchFail ==
    /\ pc = "launch"
    /\ \E m \in ErrMsgs : HandlerCatch(m) /\ Raise(m)
    /\ Await(Op("launch", <<>>), <<>>)
    /\ UNCHANGED <<req, agents, browser, page>>
    /\ UNCHANGED taskVars

\* browser.newPage() resolves; initialize returns; executeTask calls page.goto.
NewPageOk ==
    /\ pc = "newPage"
    /\ page' = TRUE
    /\ pc' = "executeTask"
    /\ stage' = "Navigating"
    /\ UNCHANGED <<req, agents, browser, responses>>
    /\ UNCHANGED <<completion, analysis, actions, idx, execpc, results,
                   driverLog, llmCalls, taskOutcome, taskResult, taskError>>
    /\ Await(Op("newPage", <<>>), <<Op("goto", req.url)>>)
    /\ UNCHANGED raised

NewPageFail ==
    /\ pc = "newPage"
    /\ \E m \in ErrMsgs : HandlerCatch(m) /\ Raise(m)
    /\ Await(Op("newPage", <<>>), <<>>)
    /\ UNCHANGED <<req, agents, browser, page>>
    /\ UNCHANGED taskVars

\* StageFails with the error rethrown as it is.
StageFailsUnwrapped(message) ==
    /\ stage' = "Failed"
    /\ taskOutcome' = "threw"
    /\ taskError' = message
    /\ HandlerCatch(message)
    /\ UNCHANGED <<req, agents, browser, page>>
    /\ UNCHANGED <<completion, analysis, actions, idx, execpc, results,
                   llmCalls, taskResult>>
    /\ Raise(message)

\* ---------------------------------------------------- WebAgent.executeTask
\* A stage raised an error with this message: the catch block of executeTask
\* wraps it, and the handler's catch block answers 500.
StageFails(message) ==
    /\ stage' = "Failed"
    /\ taskOutcome' = "threw"
    /\ taskError' = STaskExecutionFailed \o message
    /\ HandlerCatch(STaskExecutionFailed \o message)
    /\ UNCHANGED <<req, agents, browser, page>>
    /\ UNCHANGED <<completion, analysis, actions, idx, execpc, results,
                   llmCalls, taskResult>>
    /\ Raise(message)

Logged(op, target, ok) ==
    driverLog' = Append(driverLog, [op |-> op, target |-> target, ok |-> ok])

GotoOk ==
    /\ pc = "executeTask" /\ stage = "Navigating"
    /\ Logged("goto", req.url, TRUE)
    /\ stage' = "Extracting"
    /\ UNCHANGED <<req, completion, analysis, actions, idx, execpc, results,
                   llmCalls, taskOutcome, taskResult, taskError>>
    /\ UNCHANGED handlerVars
    /\ Await(Op("goto", req.url), <<Op("evaluate", <<>>)>>)
    /\ UNCHANGED raised

\* GotoFail with the navigation error swallowed: the task goes on.
GotoFailContinues ==
    /\ pc = "executeTask" /\ stage = "Navigating"
    /\ Logged("goto", req.url, FALSE)
    /\ stage' = "Extracting"
    /\ UNCHANGED <<req, completion, analysis, actions, idx, execpc, results,
                   llmCalls, taskOutcome, taskResult, taskError>>
    /\ UNCHANGED handlerVars
    /\ Await(Op("goto", req.url), <<Op("evaluate", <<>>)>>)
    /\ \E m \in ErrMsgs : Raise(m)

GotoFail ==
    /\ pc = "executeTask" /\ stage = "Navigating"
    /\ Logged("goto", req.url, FALSE)
    /\ \E m \in ErrMsgs : StageFails(m)
    /\ Await(Op("goto", req.url), <<>>)

\* extractPageContent resolves; analyzeContent builds the prompt and issues
\* the chat completion request.
ExtractOk ==
    /\ pc = "executeTask" /\ stage = "Extracting"
    /\ Logged("evaluate", <<>>, TRUE)
    /\ stage' = "Planning"
    /\ llmCalls' = llmCalls + 1
    /\ UNCHANGED <<req, completion, analysis, actions, idx, execpc, results,
                   taskOutcome, taskResult, taskError>>
    /\ UNCHANGED handlerVars
    /\ Await(Op("evaluate", <<>>), <<Op("createChatCompletion", <<>>)>>)
    /\ UNCHANGED raised

ExtractFail ==
    /\ pc = "executeTask" /\ stage = "Extracting"
    /\ Logged("evaluate", <<>>, FALSE)
    /\ \E m \in ErrMsgs : StageFails(m)
    /\ Await(Op("evaluate", <<>>), <<>>)

PlanOk ==
    /\ pc = "executeTask" /\ stage = "Planning"
    /\ \E c \in Completions : completion' = c
    /\ stage' = "Parsing"
    /\ UNCHANGED <<req, analysis, actions, idx, execpc, results, driverLog,
                   llmCalls, taskOutcome, taskResult, taskError>>
    /\ UNCHANGED handlerVars
    /\ Await(Op("createChatCompletion", <<>>), <<>>)
    /\ UNCHANGED raised

\* PlanFail with one retry of the chat completion request.
PlanFailRetries ==
    /\ pc = "executeTask" /\ stage = "Planning"
    /\ IF llmCalls < 2
       THEN /\ llmCalls' = llmCalls + 1
            /\ \E m \in ErrMsgs : Raise(m)
            /\ Await(Op("createChatCompletion", <<>>),
                     <<Op("createChatCompletion", <<>>)>>)
            /\ UNCHANGED <<req, stage, completion, analysis, actions, idx, execpc,
                           results, driverLog, taskOutcome, taskResult, taskError>>
            /\ UNCHANGED handlerVars
       ELSE /\ UNCHANGED driverLog
            /\ \E m \in ErrMsgs : StageFails(m)
            /\ Await(Op("createChatCompletion", <<>>), <<>>)

PlanFail ==
    /\ pc = "executeTask" /\ stage = "Planning"
    /\ UNCHANGED driverLog
    /\ \E m \in ErrMsgs : StageFails(m)
    /\ Await(Op("createChatCompletion", <<>>), <<>>)

\* this.parseAnalysis(completion.data.choices[0].message.content), then
\* executeActions starts with an empty results array.
ParseOk ==
    /\ pc = "executeTask" /\ stage = "Parsing"
    /\ completion.choices # <<>>
    /\ ~parseAnalysisThrows(completion.choices[1].message.content)
    /\ analysis' = completion.choices[1].message.content
    /\ actions' = parseAnalysis(completion.choices[1].message.content)
    /\ stage' = "Executing"
    /\ idx' = 1
    /\ execpc' = "op"
    /\ results' = <<>>
    /\ UNCHANGED <<req, completion, driverLog, llmCalls, taskOutcome,
                   taskResult, taskError>>
    /\ UNCHANGED handlerVars
    /\ Issue(ActionOpAt(parseAnalysis(completion.choices[1].message.content), 1))
    /\ UNCHANGED raised

ParseFail ==
    /\ pc = "executeTask" /\ stage = "Parsing"
    /\ UNCHANGED driverLog
    /\ IF completion.choices = <<>>
       THEN StageFails(MsgMessageOfUndefined)
       ELSE /\ parseAnalysisThrows(completion.choices[1].message.content)
            /\ StageFails(MsgSplitOfNull)
    /\ UNCHANGED inflight

\* ------------------------------------------------- WebAgent.executeActions
\* results.push(...) of the three cases of the switch.
SuccessText(action) ==
    IF action.type = "click" THEN SClicked \o Template(action.selector)
    ELSE IF action.type = "type" THEN STypedInto \o Template(action.selector)
    ELSE SSubmittedForm \o Template(action.selector)

\* `${action.type}` : the characters of the type tag.
TypeText(type) ==
    IF type = "click" THEN KwClick
    ELSE IF type = "type" THEN KwType
    ELSE KwSubmit

\* results.push(`Failed to execute ${action.type}: ${error.message}`)
FailureText(action, message) ==
    SFailedToExecute \o TypeText(action.type) \o SColonSpace \o message

\* page.click, page.type and document.querySelector(selector).submit() find no
\* element for a null selector and reject; for any other selector the page
\* decides.
DriverCanSucceed(action) == action.selector # Null

InLoop ==
    /\ pc = "executeTask" /\ stage = "Executing"
    /\ execpc = "op"
    /\ idx <= Len(actions)

\* ActionOk with the await on waitForNetworkIdle left out: the wait is
\* started and the loop goes straight on to the next action.
ActionOkNoAwaitSettle ==
    /\ InLoop
    /\ DriverCanSucceed(actions[idx])
    /\ Logged(actions[idx].type, actions[idx].selector, TRUE)
    /\ results' = Append(results, SuccessText(actions[idx]))
    /\ idx' = idx + 1
    /\ UNCHANGED <<req, stage, completion, analysis, actions, execpc, llmCalls,
                   taskOutcome, taskResult, taskError>>
    /\ UNCHANGED handlerVars
    /\ Await(ActionOpAt(actions, idx)[1],
             <<Op("waitForNetworkIdle", <<>>)>> \o ActionOpAt(actions, idx + 1))
    /\ UNCHANGED raised

\* The driver operation of action idx resolves; its success is recorded and
\* waitForNetworkIdle is issued.
ActionOk ==
    /\ InLoop
    /\ DriverCanSucceed(actions[idx])
    /\ Logged(actions[idx].type, actions[idx].selector, TRUE)
    /\ results' = Append(results, SuccessText(actions[idx]))
    /\ execpc' = "settle"
    /\ UNCHANGED <<req, stage, completion, analysis, actions, idx, llmCalls,
                   taskOutcome, taskResult, taskError>>
    /\ UNCHANGED handlerVars
    /\ Await(ActionOpAt(actions, idx)[1], <<Op("waitForNetworkIdle", <<>>)>>)
    /\ UNCHANGED raised

\* ActionThrows with a break in the catch block: the loop ends at the first
\* failure.
ActionThrowsAborts ==
    /\ InLoop
    /\ Logged(actions[idx].type, actions[idx].selector, FALSE)
    /\ \E m \in DriverErrMsgs :
          /\ results' = Append(results, FailureText(actions[idx], m))
          /\ Raise(m)
    /\ idx' = Len(actions) + 1
    /\ UNCHANGED <<req, stage, completion, analysis, actions, execpc, llmCalls,
                   taskOutcome, taskResult, taskError>>
    /\ UNCHANGED handlerVars
    /\ Await(ActionOpAt(actions, idx)[1], <<>>)

\* ActionThrows without the try/catch of the loop body: the error reaches the
\* catch block of executeTask.
ActionThrowsEscapes ==
    /\ InLoop
    /\ Logged(actions[idx].type, actions[idx].selector, FALSE)
    /\ \E m \in DriverErrMsgs : StageFails(m)
    /\ Await(ActionOpAt(actions, idx)[1], <<>>)

\* The driver operation of action idx rejects: the catch block records the
\* failure and the loop goes on to the next action.
ActionThrows ==
    /\ InLoop
    /\ Logged(actions[idx].type, actions[idx].selector, FALSE)
    /\ \E m \in DriverErrMsgs :
          /\ results' = Append(results, FailureText(actions[idx], m))
          /\ Raise(m)
    /\ idx' = idx + 1
    /\ UNCHANGED <<req, stage, completion, analysis, actions, execpc, llmCalls,
                   taskOutcome, taskResult, taskError>>
    /\ UNCHANGED handlerVars
    /\ Await(ActionOpAt(actions, idx)[1], ActionOpAt(actions, idx + 1))

\* waitForNetworkIdle({timeout: 3000}).catch(() => {}) settles, either way.
Settled(ok) ==
    /\ pc = "executeTask" /\ stage = "Executing"
    /\ execpc = "settle"
    /\ Logged("waitForNetworkIdle", <<>>, ok)
    /\ idx' = idx + 1
    /\ execpc' = "op"
    /\ UNCHANGED <<req, stage, completion, analysis, actions, results, llmCalls,
                   taskOutcome, taskResult, taskError>>
    /\ UNCHANGED handlerVars
    /\ Await(Op("waitForNetworkIdle", <<>>), ActionOpAt(actions, idx + 1))
    /\ raised' = IF ok THEN raised ELSE Append(raised, MsgTimeout)

SettleOk == Settled(TRUE)

\* SettleTimeout without the .catch on the wait: the rejection reaches the
\* catch block of the loop body, which records a failure.
SettleTimeoutCaught ==
    /\ pc = "executeTask" /\ stage = "Executing"
    /\ execpc = "settle"
    /\ Logged("waitForNetworkIdle", <<>>, FALSE)
    /\ results' = Append(results, FailureText(actions[idx], MsgTimeout))
    /\ idx' = idx + 1
    /\ execpc' = "op"
    /\ UNCHANGED <<req, stage, completion, analysis, actions, llmCalls,
                   taskOutcome, taskResult, taskError>>
    /\ UNCHANGED handlerVars
    /\ Await(Op("waitForNetworkIdle", <<>>), ActionOpAt(actions, idx + 1))
    /\ Raise(MsgTimeout)

SettleTimeout == Settled(FALSE)

\* The loop is over: executeActions returns results, executeTask returns the
\* task result and the handler calls agent.close().
ExecuteReturn ==
    /\ pc = "executeTask" /\ stage = "Executing"
    /\ execpc = "op"
    /\ idx > Len(actions)
    /\ stage' = "Completed"
    /\ taskOutcome' = "returned"
    /\ taskResult' = [success |-> TRUE, result |-> results,
                      message |-> STaskCompleted]
    /\ pc' = "close"
    /\ UNCHANGED <<req, agents, browser, page, responses>>
    /\ UNCHANGED <<completion, analysis, actions, idx, execpc, results,
                   driverLog, llmCalls, taskError>>
    /\ Issue(IF browser # "null" THEN <<Op("close", <<>>)>> ELSE <<>>)
    /\ UNCHANGED raised

\* ----------------------------------------------------------- WebAgent.close
\* close() resolves (browser.close() when this.browser is set) and the
\* handler answers 200 with the task result.
CloseOk ==
    /\ pc = "close"
    /\ browser' = IF browser # "null" THEN "closed" ELSE browser
    /\ Respond(200, taskResult)
    /\ pc' = "done"
    /\ UNCHANGED <<req, agents, page>>
    /\ UNCHANGED taskVars
    /\ Await(Op("close", <<>>), <<>>)
    /\ UNCHANGED raised

\* CloseFail with the response sent before close is awaited: 200 has gone out
\* when the catch block answers 500.
CloseFailAfterResponse ==
    /\ pc = "close"
    /\ browser # "null"
    /\ \E m \in ErrMsgs :
          /\ responses' = responses \o <<[status |-> 200, body |-> taskResult],
                                         [status |-> 500, body |-> [error |-> m]]>>
          /\ Raise(m)
    /\ pc' = "done"
    /\ Await(Op("close", <<>>), <<>>)
    /\ UNCHANGED <<req, agents, browser, page>>
    /\ UNCHANGED taskVars

\* CloseFail with the rejection of close swallowed: the handler answers 200.
CloseFailSwallowed ==
    /\ pc = "close"
    /\ browser # "null"
    /\ \E m \in ErrMsgs : Raise(m)
    /\ Respond(200, taskResult)
    /\ pc' = "done"
    /\ Await(Op("close", <<>>), <<>>)
    /\ UNCHANGED <<req, agents, browser, page>>
    /\ UNCHANGED taskVars

\* browser.close() rejects: the handler's catch block answers 500.
CloseFail ==
    /\ pc = "close"
    /\ browser # "null"
    /\ \E m \in ErrMsgs : HandlerCatch(m) /\ Raise(m)
    /\ Await(Op("close", <<>>), <<>>)
    /\ UNCHANGED <<req, agents, browser, page>>
    /\ UNCHANGED taskVars

\* ------------------------------------------------------------ specification
Next ==
    \/ HandlerMethodNotAllowed
    \/ HandlerMissingFields
    \/ HandlerStart
    \/ LaunchOk
    \/ LaunchFail
    \/ NewPageOk
    \/ NewPageFail
    \/ GotoOk
    \/ GotoFail
    \/ ExtractOk
    \/ ExtractFail
    \/ PlanOk
    \/ PlanFail
    \/ ParseOk
    \/ ParseFail
    \/ ActionOk
    \/ ActionThrows
    \/ SettleOk
    \/ SettleTimeout
    \/ ExecuteReturn
    \/ CloseOk
    \/ CloseFail

Spec == Init /\ [][Next]_vars

\* --------------------------------------------- the parser as a pure function
\* parseAnalysis applied to every raw text made of at most MaxFrags fragments.
ParseInit ==
    /\ req = [method |-> "POST", url |-> UrlExample, task |-> TaskExample]
    /\ pc = "parseAnalysis"
    /\ stage = "Parsing"
    /\ agents = 0
    /\ browser = "null"
    /\ page = FALSE
    /\ completion = NoCompletion
    /\ analysis \in ParseTexts
    /\ actions = <<>>
    /\ idx = 1
    /\ execpc = "op"
    /\ results = <<>>
    /\ driverLog = <<>>
    /\ llmCalls = 0
    /\ taskOutcome = "pending"
    /\ taskResult = NoResult
    /\ taskError = <<>>
    /\ responses = <<>>
    /\ inflight = <<>>
    /\ raised = <<>>

ParseCall ==
    /\ pc = "parseAnalysis"
    /\ ~parseAnalysisThrows(analysis)
    /\ actions' = parseAnalysis(analysis)
    /\ pc' = "parsed"
    /\ UNCHANGED <<req, stage, agents, browser, page, completion, analysis, idx,
                   execpc, results, driverLog, llmCalls, taskOutcome,
                   taskResult, taskError, responses, inflight, raised>>

ParseNext == ParseCall

ParseSpec == ParseInit /\ [][ParseNext]_vars

\* The steps of executeActions.  Each awaited promise of the loop settles
\* (the driver operations resolve or reject, the settle wait is bounded by its
\* 3000 ms timeout), so a step of the loop that can be taken is taken.
ExecStep == ActionOk \/ ActionThrows \/ SettleOk \/ SettleTimeout \/ ExecuteReturn

FairSpec == Spec /\ WF_vars(ExecStep)

\* ================================================================== claims
\* The click, type and submit operations performed so far, in order.
ActionOps == SelectSeq(driverLog, LAMBDA e : e.op \in {"click", "type", "submit"})

IsFailureRecord(r) == StartsWithAt(r, 1, SFailedToExecute)

\* C1: failure isolation in executeActions.  There is one result per action
\* attempted, in the order of the action list; result i is a failure record
\* exactly when the driver operation of action i failed; and when the executor
\* has returned every action has been attempted, so that the result list has
\* exactly Len(actions) entries whatever operations threw.
C1_FailureIsolation ==
    /\ Len(results) = Len(ActionOps)
    /\ Len(results) <= Len(actions)
    /\ \A i \in 1..Len(results) :
          /\ ActionOps[i].op = actions[i].type
          /\ ActionOps[i].target = actions[i].selector
          /\ IsFailureRecord(results[i]) <=> ~ActionOps[i].ok
    /\ taskOutcome = "returned" =>
          /\ Len(results) = Len(actions)
          /\ taskResult.result = results

\* Three actions, only the second of which threw, and three results.
C1_Witness ==
    /\ taskOutcome = "returned"
    /\ Len(actions) = 3
    /\ Len(results) = 3
    /\ ~IsFailureRecord(results[1])
    /\ IsFailureRecord(results[2])
    /\ ~IsFailureRecord(results[3])

\* C2: an action whose selector is null is never dispatched to the browser
\* driver: no click, type or submit operation is performed with a null target.
C2_NullNeverDispatched ==
    \A i \in 1..Len(ActionOps) : ActionOps[i].target # Null

\* C3: scoped browser session.  Once the response of a request has been sent,
\* the browser session acquired for it is not open any more.
C3_SessionReleased ==
    (pc = "done" /\ responses # <<>>) => browser # "open"

\* C4: orchestrator terminal states.  Failed is entered only from Navigating,
\* Extracting, Planning or Parsing; Executing is left only for Completed, and
\* always is; Completed carries {success: true, result, message} with one
\* result per action.
C4_TerminalStates ==
    /\ [][(stage' = "Failed" /\ stage # "Failed") =>
            stage \in {"Navigating", "Extracting", "Planning", "Parsing"}]_vars
    /\ [][stage = "Executing" => stage' \in {"Executing", "Completed"}]_vars
    /\ [](stage = "Completed" =>
            /\ taskOutcome = "returned"
            /\ taskResult = [success |-> TRUE, result |-> results,
                             message |-> STaskCompleted]
            /\ Len(results) = Len(actions))
    /\ (stage = "Executing") ~> (stage = "Completed")

\* A completed task all of whose actions failed.
C4_Witness ==
    /\ stage = "Completed"
    /\ Len(results) >= 2
    /\ \A i \in 1..Len(results) : IsFailureRecord(results[i])

NavigationFailed ==
    driverLog # <<>> /\ driverLog[1].op = "goto" /\ ~driverLog[1].ok

ExtractionFailed ==
    Len(driverLog) >= 2 /\ driverLog[2].op = "evaluate" /\ ~driverLog[2].ok

\* C5: all-or-nothing fatal stages.  A failed navigation or extraction ends
\* the task at once, and a task that ended with an error has one wrapped
\* error, no result, no parsed action carried out, no click, type, submit or
\* settle operation, and none of the stages after the failed one.
C5_AllOrNothing ==
    /\ (NavigationFailed \/ ExtractionFailed) => taskOutcome = "threw"
    /\ taskOutcome = "threw" =>
          /\ stage = "Failed"
          /\ taskResult = NoResult
          /\ results = <<>>
          /\ actions = <<>>
          /\ \A i \in 1..Len(driverLog) : driverLog[i].op \in {"goto", "evaluate"}
          /\ StartsWithAt(taskError, 1, STaskExecutionFailed)
          /\ responses = <<[status |-> 500, body |-> [error |-> taskError]]>>
          /\ NavigationFailed => (Len(driverLog) = 1 /\ llmCalls = 0)
          /\ ExtractionFailed => (Len(driverLog) = 2 /\ llmCalls = 0)

\* A navigation timeout ended the task.
C5_Witness ==
    /\ taskOutcome = "threw"
    /\ NavigationFailed
    /\ taskError = STaskExecutionFailed \o MsgTimeout

\* C6: status mapping of the handler.  A non-POST request is answered 405 and
\* a POST without url or task 400, both without an agent or a browser; a POST
\* whose run (initialize, executeTask, close) fails is answered 500 with
\* {error: message}; a POST whose run completes is answered 200 with the task
\* result.
C6_StatusMapping ==
    pc = "done" =>
      /\ Len(responses) = 1
      /\ req.method # "POST" =>
            /\ responses[1] = [status |-> 405, body |-> [error |-> SMethodNotAllowed]]
            /\ agents = 0 /\ browser = "null"
      /\ (req.method = "POST"
            /\ (req.url \in {Undefined, <<>>} \/ req.task \in {Undefined, <<>>})) =>
            /\ responses[1] = [status |-> 400, body |-> [error |-> SUrlAndTaskRequired]]
            /\ agents = 0 /\ browser = "null"
      /\ (req.method = "POST" /\ req.url = UrlExample /\ req.task = TaskExample) =>
            /\ agents = 1
            /\ IF taskOutcome = "returned" /\ browser = "closed"
               THEN responses[1] = [status |-> 200, body |-> taskResult]
               ELSE /\ responses[1].status = 500
                    /\ \E m \in ErrMsgs :
                         responses[1].body \in
                            {[error |-> m], [error |-> taskError]}

\* A completed run answered 200.
C6_Witness ==
    /\ pc = "done"
    /\ responses # <<>>
    /\ responses[1].status = 200
    /\ Len(responses[1].body.result) = 2

\* The lines of the text held in analysis, cut at the newline characters.
RawLineStarts == {0} \cup {k \in 1..Len(analysis) : analysis[k] = "\n"}

RawLineEnd(a) ==
    Min({k \in (a + 1)..(Len(analysis) + 1) :
            k = Len(analysis) + 1 \/ analysis[k] = "\n"})

RawLineHasKeyword(a) ==
    LET line == SubSeq(analysis, a + 1, RawLineEnd(a) - 1)
    IN \E kw \in {KwClick, KwType, KwSubmit} :
         \E i \in 1..Len(line) :
            /\ i + Len(kw) - 1 <= Len(line)
            /\ \A k \in 1..Len(kw) : line[i + k - 1] = kw[k]

\* C7: for every raw plan text the parser does not raise (the call is never
\* one that throws), and it yields as many actions, each a click, type or
\* submit action, as the text has lines containing click, type or submit.
C7_ActionCount ==
    /\ pc = "parseAnalysis" => ~parseAnalysisThrows(analysis)
    /\ pc = "parsed" =>
          /\ Len(actions) =
                Cardinality({a \in RawLineStarts : RawLineHasKeyword(a)})
          /\ \A i \in 1..Len(actions) :
                actions[i].type \in {"click", "type", "submit"}

\* A text of two lines, only one of them with a keyword.
C7_Witness ==
    /\ pc = "parsed"
    /\ Cardinality(RawLineStarts) = 2
    /\ Len(actions) = 1

\* C8: the plan text 1. Click the button with id="login-btn" is parsed to the
\* single action {type: click, selector: "#login-btn"}, and when the click
\* succeeds the result is "Clicked #login-btn".
C8_LoginExample ==
    (stage \in {"Executing", "Completed"} /\ analysis = LineLoginBtn) =>
      /\ actions = <<[type |-> "click", selector |-> SelLoginBtn]>>
      /\ (ActionOps # <<>> /\ ActionOps[1].ok) =>
            results = <<SClicked \o SelLoginBtn>>

\* C9: whatever the model service answered, an empty text or a response with
\* no usable content, the parser does not raise: Parsing is always left for
\* Executing, never for Failed.
C9_ParserNeverRaises ==
    [][stage = "Parsing" => stage' \in {"Parsing", "Executing"}]_vars

\* C10: every click, type or submit operation, succeeded or failed, is
\* followed by one wait for network idle before the next operation and before
\* the executor returns.
C10_SettleAfterEveryAction ==
    /\ \A i \in 1..(Len(driverLog) - 1) :
          driverLog[i].op \in {"click", "type", "submit"} =>
              driverLog[i + 1].op = "waitForNetworkIdle"
    /\ (taskOutcome = "returned" /\ driverLog # <<>>) =>
          driverLog[Len(driverLog)].op \in {"goto", "evaluate", "waitForNetworkIdle"}


IsActionOp(e) == e.op \in {"click", "type", "submit"}

\* Number of click, type and submit operations among the first i log entries.
ActionIndexAt(i) == Cardinality({j \in 1..i : IsActionOp(driverLog[j])})

\* C11: the settle wait is never a failure cause.  A wait that timed out
\* follows a driver operation that succeeded, the result of that action is
\* still its success record and its only result, and while the wait is
\* pending nothing is recorded: when it settles the loop moves to the next
\* action.
C11_SettleNeverFails ==
    /\ [](\A i \in 1..Len(driverLog) :
            (driverLog[i].op = "waitForNetworkIdle" /\ ~driverLog[i].ok) =>
                /\ i > 1
                /\ IsActionOp(driverLog[i - 1])
                /\ driverLog[i - 1].ok
                /\ Len(results) = Len(ActionOps)
                /\ results[ActionIndexAt(i)] = SuccessText(actions[ActionIndexAt(i)]))
    /\ [][execpc = "settle" =>
            (results' = results /\ idx' = idx + 1 /\ stage' = "Executing")]_vars

\* A wait timed out after a successful action and the next action was
\* attempted all the same.
C11_Witness ==
    /\ taskOutcome = "returned"
    /\ \E i \in 1..(Len(driverLog) - 1) :
          /\ driverLog[i].op = "waitForNetworkIdle"
          /\ ~driverLog[i].ok
          /\ IsActionOp(driverLog[i + 1])


\* The raw lines of analysis that contain a keyword, by their start position.
MatchingStarts == {a \in RawLineStarts : RawLineHasKeyword(a)}

\* The i-th smallest element of a set of positions.
Nth(M, i) == CHOOSE a \in M : Cardinality({b \in M : b < a}) = i - 1

RawLine(a) == SubSeq(analysis, a + 1, RawLineEnd(a) - 1)

\* C12: order preservation.  Action i is the action of the i-th line that
\* contains a keyword; the driver operations are performed in the order of
\* the action list, none skipped or repeated; result i describes action i.
C12_OrderPreserved ==
    stage \in {"Executing", "Completed"} =>
      /\ LET M == MatchingStarts
         IN /\ Len(actions) = Cardinality(M)
            /\ \A i \in 1..Len(actions) :
                  <<actions[i]>> = parseLine(RawLine(Nth(M, i)))
      /\ Len(ActionOps) <= Len(actions)
      /\ Len(results) = Len(ActionOps)
      /\ \A i \in 1..Len(ActionOps) :
            /\ ActionOps[i].op = actions[i].type
            /\ ActionOps[i].target = actions[i].selector
            /\ \/ results[i] = SuccessText(actions[i])
               \/ \E m \in DriverErrMsgs : results[i] = FailureText(actions[i], m)
      /\ stage = "Completed" => Len(ActionOps) = Len(actions)

\* Two actions of different types, parsed from a text of three lines, were
\* both carried out.
C12_Witness ==
    /\ stage = "Completed"
    /\ Cardinality(RawLineStarts) = 3
    /\ Len(actions) = 2
    /\ actions[1].type # actions[2].type
    /\ Len(results) = 2


\* Settle waits that have finished.
WaitsDone == Len(SelectSeq(driverLog, LAMBDA e : e.op = "waitForNetworkIdle"))

\* Driver operations of actions that have succeeded.
ActionsOk == Len(SelectSeq(ActionOps, LAMBDA e : e.ok))

\* C13: strict sequencing.  At most one external operation is outstanding;
\* each stage's operation is outstanding only when the operations of the
\* stages before it have finished; the operation of an action is outstanding
\* only when the operations of all earlier actions and their settle waits
\* have finished.
C13_StrictSequencing ==
    /\ Len(inflight) <= 1
    /\ \A n \in 1..Len(inflight) :
          LET x == inflight[n]
          IN /\ x.op = "goto" => driverLog = <<>>
             /\ x.op = "evaluate" =>
                   (Len(driverLog) = 1 /\ driverLog[1].op = "goto" /\ driverLog[1].ok)
             /\ x.op = "createChatCompletion" =>
                   /\ Len(driverLog) = 2
                   /\ driverLog[2].op = "evaluate" /\ driverLog[2].ok
                   /\ llmCalls = 1
             /\ IsActionOp(x) =>
                   /\ stage = "Executing" /\ idx <= Len(actions)
                   /\ x = Op(actions[idx].type, actions[idx].selector)
                   /\ Len(ActionOps) = idx - 1
                   /\ WaitsDone = ActionsOk
             /\ x.op = "waitForNetworkIdle" =>
                   /\ stage = "Executing"
                   /\ Len(ActionOps) = idx
                   /\ ActionOps[idx].ok
                   /\ WaitsDone = ActionsOk - 1
             /\ x.op = "close" => (stage = "Completed" /\ Len(ActionOps) = Len(actions))

\* The operation of the second action is outstanding after the first action
\* succeeded and its settle wait finished.
C13_Witness ==
    /\ stage = "Executing"
    /\ idx = 2
    /\ Len(actions) >= 2
    /\ driverLog # <<>>
    /\ inflight = <<Op(actions[2].type, actions[2].selector)>>
    /\ driverLog[Len(driverLog)].op = "waitForNetworkIdle"


\* The raw line starting after position a contains the keyword kw.
RawLineHas(a, kw) ==
    LET line == RawLine(a)
    IN \E i \in 1..Len(line) :
         /\ i + Len(kw) - 1 <= Len(line)
         /\ \A k \in 1..Len(kw) : line[i + k - 1] = kw[k]

\* C14: keyword priority.  Every line with a keyword yields exactly one
\* action, of type click if the line contains click, else type if it contains
\* type, else submit; a line with no keyword yields nothing.
C14_KeywordPriority ==
    pc = "parsed" =>
      LET M == MatchingStarts
      IN /\ Len(actions) = Cardinality(M)
         /\ \A i \in 1..Len(actions) :
               actions[i].type =
                 IF RawLineHas(Nth(M, i), KwClick) THEN "click"
                 ELSE IF RawLineHas(Nth(M, i), KwType) THEN "type"
                 ELSE "submit"

\* A single line containing all three keywords was parsed to one click.
C14_Witness ==
    /\ pc = "parsed"
    /\ RawLineStarts = {0}
    /\ RawLineHas(0, KwClick) /\ RawLineHas(0, KwType) /\ RawLineHas(0, KwSubmit)
    /\ Len(actions) = 1
    /\ actions[1].type = "click"


\* Positions of a line where the pattern  prefix, one or more characters other
\* than q, q  occurs.
PatternStarts(line, prefix, q) ==
    {i \in 1..Len(line) :
        /\ i + Len(prefix) - 1 <= Len(line)
        /\ \A k \in 1..Len(prefix) : line[i + k - 1] = prefix[k]
        /\ \E e \in (i + Len(prefix) + 1)..Len(line) :
              /\ line[e] = q
              /\ \A k \in (i + Len(prefix))..(e - 1) : line[k] # q}

\* The text between the prefix and the closing q of the first occurrence.
PatternText(line, prefix, q) ==
    LET i == Min(PatternStarts(line, prefix, q))
        e == Min({k \in (i + Len(prefix))..Len(line) : line[k] = q})
    IN SubSeq(line, i + Len(prefix), e - 1)

ExpectedSelector(line) ==
    IF PatternStarts(line, IdPrefix, "\"") # {}
    THEN <<"#">> \o PatternText(line, IdPrefix, "\"")
    ELSE IF PatternStarts(line, ClassPrefix, "\"") # {}
    THEN <<".">> \o PatternText(line, ClassPrefix, "\"")
    ELSE IF PatternStarts(line, <<"'">>, "'") # {}
    THEN STextEq \o PatternText(line, <<"'">>, "'") \o <<"\"">>
    ELSE Null

\* C15: selector resolution priority.  The selector of every action is #id
\* when its line has an id="..." pattern, else .class when it has a
\* class="..." pattern, else text="literal" when it has a single-quoted
\* literal, else null.
C15_SelectorPriority ==
    pc = "parsed" =>
      LET M == MatchingStarts
      IN /\ Len(actions) = Cardinality(M)
         /\ \A i \in 1..Len(actions) :
               actions[i].selector = ExpectedSelector(RawLine(Nth(M, i)))

\* A click line with a class pattern followed by id="a" was parsed to
\* {type: click, selector: "#a"}.
C15_Witness ==
    /\ pc = "parsed"
    /\ analysis = KwClick \o FragClass \o FragId
    /\ actions = <<[type |-> "click", selector |-> <<"#", "a">>]>>


SHello ==
    <<"h", "e", "l", "l", "o">>

\* C16: the line  type value="hello"  is parsed to {type: type, selector:
\* null, value: "hello"}; the value of a type action is the text of the value
\* pattern of its line and the empty string when there is none; an action
\* with a null selector gets a failure record, and no error leaves the
\* executor.
C16_NullSelectorTypeFails ==
    stage \in {"Executing", "Completed"} =>
      /\ analysis = LineTypeValue =>
            actions = <<[type |-> "type", selector |-> Null, value |-> SHello]>>
      /\ LET M == MatchingStarts
         IN \A i \in 1..Len(actions) :
              actions[i].type = "type" =>
                actions[i].value =
                  IF PatternStarts(RawLine(Nth(M, i)), ValuePrefix, "\"") # {}
                  THEN PatternText(RawLine(Nth(M, i)), ValuePrefix, "\"")
                  ELSE <<>>
      /\ \A i \in 1..Len(results) :
            actions[i].selector = Null => IsFailureRecord(results[i])
      /\ taskOutcome # "threw"
      /\ stage = "Completed" => Len(results) = Len(actions)

\* The task whose plan was  type value="hello"  completed with one failed
\* result.
C16_Witness ==
    /\ stage = "Completed"
    /\ analysis = LineTypeValue
    /\ Len(results) = 1
    /\ IsFailureRecord(results[1])


\* Number of finished driver operations of one kind.
OpCount(op) == Len(SelectSeq(driverLog, LAMBDA e : e.op = op))

\* C17: no retries.  Navigation, extraction and the model request are each
\* issued at most once, and the i-th click, type or submit operation is the
\* operation of action i, so that no action is dispatched twice.
C17_NoRetries ==
    /\ OpCount("goto") <= 1
    /\ OpCount("evaluate") <= 1
    /\ llmCalls <= 1
    /\ Len(SelectSeq(inflight, LAMBDA x : x.op = "createChatCompletion")) <= 1
    /\ Len(ActionOps) <= Len(actions)
    /\ \A i \in 1..Len(ActionOps) :
          /\ ActionOps[i].op = actions[i].type
          /\ ActionOps[i].target = actions[i].selector

\* The model request failed, was not repeated, and the task ended.
C17_Witness ==
    /\ stage = "Failed"
    /\ llmCalls = 1
    /\ raised = <<MsgTimeout>>


LastRaised == raised[Len(raised)]

\* C18: one response per request.  At most one response is ever sent, it is
\* a 405, 400, 200 or 500, the handler has finished exactly when it has been
\* sent, and nothing is sent after it.
C18_ExactlyOneResponse ==
    /\ [](/\ Len(responses) <= 1
          /\ pc = "done" <=> Len(responses) = 1
          /\ \A i \in 1..Len(responses) : responses[i].status \in {405, 400, 200, 500})
    /\ [][responses # <<>> => responses' = responses]_vars

\* close threw after executeTask had returned, and one response was sent.
C18_Witness ==
    /\ pc = "done"
    /\ taskOutcome = "returned"
    /\ browser = "open"
    /\ Len(responses) = 1
    /\ raised # <<>>
    /\ LastRaised = MsgNoNode

\* C19: a 200 response carries the task result and is sent only when
\* executeTask has returned and close has completed; when close fails after
\* a completed task the response is 500 with the message of the error of
\* close, and the task result is not sent.
C19_OkOnlyAfterClose ==
    /\ \A i \in 1..Len(responses) :
          responses[i].status = 200 =>
            /\ taskOutcome = "returned"
            /\ browser = "closed"
            /\ inflight = <<>>
            /\ responses[i].body = taskResult
    /\ (pc = "done" /\ taskOutcome = "returned" /\ browser # "closed") =>
          /\ raised # <<>>
          /\ LastRaised \in ErrMsgs
          /\ responses = <<[status |-> 500, body |-> [error |-> LastRaised]]>>

\* A task with results completed, close failed with a timeout, and the
\* client received 500.
C19_Witness ==
    /\ pc = "done"
    /\ taskOutcome = "returned"
    /\ Len(taskResult.result) >= 1
    /\ browser = "open"
    /\ responses = <<[status |-> 500, body |-> [error |-> MsgTimeout]]>>

\* C20: the error that leaves executeTask is the error of the failed stage
\* wrapped once: its message is Task execution failed:  followed by the
\* message of that error; an error of initialize or close reaches the handler
\* with its own message.
C20_WrappedOnce ==
    /\ taskOutcome = "threw" =>
          /\ raised # <<>>
          /\ ~StartsWithAt(LastRaised, 1, STaskExecutionFailed)
          /\ taskError = STaskExecutionFailed \o LastRaised
          /\ responses = <<[status |-> 500, body |-> [error |-> taskError]]>>
    /\ (pc = "done" /\ agents = 1 /\ taskOutcome # "threw"
          /\ responses[1].status = 500) =>
          /\ raised # <<>>
          /\ responses[1].body = [error |-> LastRaised]
          /\ ~StartsWithAt(LastRaised, 1, STaskExecutionFailed)

\* The parser raised on a response without content and the handler received
\* the wrapped message.
C20_Witness ==
    /\ taskOutcome = "threw"
    /\ taskError = STaskExecutionFailed \o MsgSplitOfNull
    /\ responses # <<>>

====
